---- MODULE Spec2Model ----
(***************************************************************************)
(* The Pick-a-Brick substitute and palette pipeline of                     *)
(* src/marketplaces/pick_a_brick:                                          *)
(*   analyze_missing_colors.py     missing-colour report on the raw file   *)
(*   generate_with_substitutes.py  the augmented catalog                   *)
(*   analyze_substitutes.py        the "still missing" report              *)
(*   create_universal_palette.py   palette, filter, consistency check      *)
(* The scripts exchange JSON files; a file is a variable holding the       *)
(* document.  A catalog document is a sequence of piece records.           *)
(*                                                                         *)
(* Encodings.  A label "BRICK 1X2" is held as its tokens                   *)
(* <<"BRICK", <<1, 2>>>>: what str.split() and split("X") produce.  The    *)
(* JSON null (Python None) of element_id and rgb is the empty tuple; an    *)
(* absent is_substitute key is FALSE (c.get('is_substitute') is falsy in   *)
(* both cases).  Prices are counted in mills (1/1000 of a dollar).         *)
(***************************************************************************)
EXTENDS Integers, Sequences, FiniteSets, TLC

(***************************************************************************)
(* Bounds of the model.                                                    *)
(***************************************************************************)
\* Longest catalog document drawn as input.
MaxPieces == 4

\* parse_brick_type: type_name is "BRICK" or "PLATE".
Families == {"BRICK", "PLATE"}

\* The labels an input document may hold, in the order a document lists
\* them (which is not the order of their sizes): five bricks, two of them
\* of the same size, and one plate.
TypeOrder ==
    << <<"BRICK", <<2, 2>>>>, <<"BRICK", <<1, 1>>>>, <<"PLATE", <<1, 1>>>>,
       <<"BRICK", <<1, 4>>>>, <<"BRICK", <<1, 2>>>>, <<"BRICK", <<1, 3>>>> >>

\* The colour names of the inputs, in the order sorted() gives them.
ColorNames == <<"Blue", "Red">>

Colors == {ColorNames[i] : i \in DOMAIN ColorNames}

(***************************************************************************)
(* Generic sequence helpers (Python list idioms).                          *)
(***************************************************************************)
\* next((x for x in s if test(x)), None), given the sequence of the tests'
\* outcomes: the index of the first match, 0 (for None) if there is none.
FirstIndex(tests) ==
    IF \E i \in DOMAIN tests : tests[i]
    THEN CHOOSE i \in DOMAIN tests : tests[i] /\ \A j \in 1..(i - 1) : ~tests[j]
    ELSE 0

\* list.sort(key=lambda x: x['size']) is stable: x goes after every element
\* whose size is <= its own.
RECURSIVE InsertAsc(_, _)
InsertAsc(sorted, x) ==
    IF sorted = <<>> THEN <<x>>
    ELSE IF Head(sorted).size <= x.size
         THEN <<Head(sorted)>> \o InsertAsc(Tail(sorted), x)
         ELSE <<x>> \o sorted

RECURSIVE SortAscFrom(_, _, _)
SortAscFrom(s, i, acc) ==
    IF i > Len(s) THEN acc
    ELSE SortAscFrom(s, i + 1, InsertAsc(acc, s[i]))

SortAsc(s) == SortAscFrom(s, 1, <<>>)

\* list.sort(key=lambda x: x['size'], reverse=True): descending, elements of
\* equal size keep their order.
RECURSIVE InsertDesc(_, _)
InsertDesc(sorted, x) ==
    IF sorted = <<>> THEN <<x>>
    ELSE IF Head(sorted).size >= x.size
         THEN <<Head(sorted)>> \o InsertDesc(Tail(sorted), x)
         ELSE <<x>> \o sorted

RECURSIVE SortDescFrom(_, _, _)
SortDescFrom(s, i, acc) ==
    IF i > Len(s) THEN acc
    ELSE SortDescFrom(s, i + 1, InsertDesc(acc, s[i]))

SortDesc(s) == SortDescFrom(s, 1, <<>>)

\* sorted(S) for a set of colour names.
SortedColors(S) == SelectSeq(ColorNames, LAMBDA c : c \in S)

(***************************************************************************)
(* Catalog model.                                                          *)
(***************************************************************************)
\* parse_brick_type: parts = brick_type.split(); parts[0] is the family,
\* parts[1].split("X") gives the two dimensions.
parse_brick_type(brick_type) ==
    [type_name |-> brick_type[1],
     width     |-> brick_type[2][1],
     length    |-> brick_type[2][2]]

\* A part of the second token that int() rejects ("A", ""), in labels that
\* are not well formed; a part of digits is held as its number.
NotANumber == -1

\* parse_brick_type raises: parts[1] on a label of fewer than two tokens and
\* dimensions[1] on a second token without "X" (IndexError), int() on a part
\* that is no number (ValueError).  Further tokens and parts are not read.
ParseRaises(brick_type) ==
    IF Len(brick_type) < 2 THEN TRUE
    ELSE IF brick_type[2][1] = NotANumber THEN TRUE
    ELSE IF Len(brick_type[2]) < 2 THEN TRUE
    ELSE brick_type[2][2] = NotANumber

calculate_size(width, length) == width * length

\* {c['color_name'] for c in colors}
ColorNameSet(colors) == {colors[i].color_name : i \in DOMAIN colors}

\* next((c for c in colors if c['color_name'] == color_name), None)
ColorIndex(colors, color_name) ==
    FirstIndex([i \in DOMAIN colors |-> colors[i].color_name = color_name])

\* brick_info of generate_with_substitutes (lines 138-147).
BrickInfo(brick) ==
    LET p == parse_brick_type(brick.brick_type)
    IN  [element_id  |-> brick.element_id,
         brick_type  |-> brick.brick_type,
         type_name   |-> p.type_name,
         width       |-> p.width,
         length      |-> p.length,
         size        |-> calculate_size(p.width, p.length),
         colors_data |-> brick.colors,
         num_colors  |-> brick.num_colors]

\* parsed_bricks: one brick_info per record, in file order.
ParsedBricks(data) == [i \in DOMAIN data |-> BrickInfo(data[i])]

\* bricks_by_type[type_name] assigned for appended to: the list holds the
\* last brick of the type alone.
BricksByTypeLastOnly(data, type_name) ==
    LET all == SelectSeq(ParsedBricks(data), LAMBDA b : b.type_name = type_name)
    IN  IF all = <<>> THEN all ELSE <<all[Len(all)]>>

\* bricks_by_type[type_name], sorted ascending by size (stable).
BricksByType(data, type_name) ==
    SortAsc(SelectSeq(ParsedBricks(data), LAMBDA b : b.type_name = type_name))

\* smaller_bricks with "<=" for "<": bricks of the same size count as smaller.
SmallerBricksOrEqual(data, brick_info) ==
    SelectSeq(BricksByType(data, brick_info.type_name),
              LAMBDA b : b.size <= brick_info.size)

\* smaller_bricks cut to the nearest smaller brick alone.
SmallerBricksNearest(data, brick_info) ==
    LET smaller == SelectSeq(BricksByType(data, brick_info.type_name),
                             LAMBDA b : b.size < brick_info.size)
    IN  IF smaller = <<>> THEN smaller ELSE <<smaller[Len(smaller)]>>

\* smaller_bricks: the same-type bricks of strictly smaller size, in the
\* sorted order.
SmallerBricks(data, brick_info) ==
    SelectSeq(BricksByType(data, brick_info.type_name),
              LAMBDA b : b.size < brick_info.size)

\* all_colors_in_smaller
AllColorsInSmaller(smaller_bricks) ==
    UNION {ColorNameSet(smaller_bricks[i].colors_data) : i \in DOMAIN smaller_bricks}

\* missing_colors = all_colors_in_smaller - current_colors
MissingColors(data, brick_info) ==
    AllColorsInSmaller(SmallerBricks(data, brick_info))
        \ ColorNameSet(brick_info.colors_data)

(***************************************************************************)
(* Substitute synthesis: find_efficient_substitute.                        *)
(***************************************************************************)
\* The Optional[List] result: none = TRUE is Python's None.
NoneResult == [none |-> TRUE, list |-> <<>>]

ListResult(l) == [none |-> FALSE, list |-> l]

\* "if substitutes:" is false for None and for the empty list.
Truthy(result) == ~result.none /\ result.list # <<>>

\* lines 48-60: the pieces of strictly smaller size that have the colour.
Candidates(target_width, target_length, available_pieces, color_name) ==
    LET has(piece) == /\ piece.size < target_width * target_length
                      /\ ColorIndex(piece.colors_data, color_name) # 0
        cand(piece) ==
            [brick_type |-> piece.brick_type,
             width      |-> piece.width,
             length     |-> piece.length,
             size       |-> piece.size,
             color_data |-> piece.colors_data[ColorIndex(piece.colors_data, color_name)]]
        selected == SelectSeq(available_pieces, has)
    IN  [i \in DOMAIN selected |-> cand(selected[i])]

\* The count with "if" for "while": at most one piece is counted.
CountFitOnce(temp_remaining, size) == IF temp_remaining >= size THEN 1 ELSE 0

\* while temp_remaining >= candidate['size']: count += 1 (lines 83-88).
RECURSIVE CountFit(_, _)
CountFit(temp_remaining, size) ==
    IF temp_remaining >= size THEN 1 + CountFit(temp_remaining - size, size)
    ELSE 0

\* The fit test left to the size comparison of line 50 alone.
FitsByArea(candidate, target_width, target_length) ==
    candidate.size < target_width * target_length

\* The fit test with "<" for "<=": a candidate as wide or as long as the
\* target does not fit.
FitsStrictly(candidate, target_width, target_length) ==
    candidate.width < target_width /\ candidate.length < target_length

\* The fit test of the greedy loop (line 81).
Fits(candidate, target_width, target_length) ==
    candidate.width <= target_width /\ candidate.length <= target_length

\* The greedy loop, lines 79-99, from candidate i on; st holds substitutes
\* and remaining_area.
RECURSIVE GreedyFrom(_, _, _, _, _)
GreedyFrom(candidates, i, target_width, target_length, st) ==
    IF i > Len(candidates) THEN st
    ELSE
      LET candidate == candidates[i]
          count == CountFit(st.remaining_area, candidate.size)
      IN  IF Fits(candidate, target_width, target_length) /\ count > 0
          THEN LET next ==
                     [substitutes |-> Append(st.substitutes,
                          [brick_type |-> candidate.brick_type,
                           element_id |-> candidate.color_data.element_id,
                           quantity   |-> count]),
                      remaining_area |-> st.remaining_area - count * candidate.size]
               IN  IF next.remaining_area = 0 THEN next
                   ELSE GreedyFrom(candidates, i + 1, target_width, target_length, next)
          ELSE GreedyFrom(candidates, i + 1, target_width, target_length, st)

\* min(candidates, key=size): the first candidate of minimal size.
Smallest(candidates) ==
    LET m == CHOOSE i \in DOMAIN candidates :
                 /\ \A j \in DOMAIN candidates : candidates[i].size <= candidates[j].size
                 /\ \A j \in 1..(i - 1) : candidates[j].size > candidates[i].size
    IN  candidates[m]

\* find_efficient_substitute without the check that the area is filled:
\* whatever the greedy loop collected is returned.
find_efficient_substitute_unchecked(target_width, target_length, available_pieces, color_name) ==
    LET unsorted == Candidates(target_width, target_length, available_pieces, color_name)
    IN  IF unsorted = <<>> THEN NoneResult
        ELSE ListResult(GreedyFrom(SortDesc(unsorted), 1, target_width, target_length,
                            [substitutes |-> <<>>,
                             remaining_area |-> target_width * target_length]).substitutes)

find_efficient_substitute(target_width, target_length, available_pieces, color_name) ==
    LET unsorted == Candidates(target_width, target_length, available_pieces, color_name)
    IN  IF unsorted = <<>> THEN NoneResult
        ELSE
          LET candidates == SortDesc(unsorted)
              greedy == GreedyFrom(candidates, 1, target_width, target_length,
                            [substitutes |-> <<>>,
                             remaining_area |-> target_width * target_length])
              smallest == Smallest(candidates)
          IN  IF greedy.remaining_area = 0 THEN ListResult(greedy.substitutes)
              ELSE IF greedy.remaining_area > 0 /\ smallest.size = 1
                   THEN ListResult(Append(greedy.substitutes,
                            [brick_type |-> smallest.brick_type,
                             element_id |-> smallest.color_data.element_id,
                             quantity   |-> greedy.remaining_area]))
                   ELSE NoneResult

(***************************************************************************)
(* Catalog augmentation: the loop body of generate_with_substitutes.       *)
(***************************************************************************)
\* price: float | None of the scraper's ColorVariant; None is NoPrice.
NoPrice == -1

\* A colour entry without the key 'price' holds AbsentPrice.
AbsentPrice == -2

\* int(total_price * 100) / 100 for round(total_price, 2): the mills are
\* cut off.
Round2Truncated(mills) == 10 * (mills \div 10)

\* round(total_price, 2) on a price counted in mills: to the nearest cent,
\* a half going to the even cent.
Round2(mills) ==
    LET q == mills \div 10
        r == mills % 10
    IN  IF r < 5 THEN 10 * q
        ELSE IF r > 5 THEN 10 * (q + 1)
        ELSE IF q % 2 = 0 THEN 10 * q ELSE 10 * (q + 1)

\* The loop of lines 204-208 without its break: the rgb of the last smaller
\* brick that has the colour.
RgbValueLastCarrier(smaller_bricks, color_name) ==
    LET has == {i \in DOMAIN smaller_bricks :
                   ColorIndex(smaller_bricks[i].colors_data, color_name) # 0}
    IN  IF has = {} THEN <<>>
        ELSE LET k == CHOOSE i \in has : \A m \in has : m <= i
             IN  smaller_bricks[k].colors_data[
                     ColorIndex(smaller_bricks[k].colors_data, color_name)].rgb

\* lines 203-208: rgb of the first smaller brick that has the colour.
RgbValue(smaller_bricks, color_name) ==
    LET k == FirstIndex([i \in DOMAIN smaller_bricks |->
                 ColorIndex(smaller_bricks[i].colors_data, color_name) # 0])
    IN  IF k = 0 THEN <<>>
        ELSE smaller_bricks[k].colors_data[
                 ColorIndex(smaller_bricks[k].colors_data, color_name)].rgb

\* lines 214-219: the colour entry the price of one substitute line is read
\* from: the first smaller brick of that brick_type that has the colour.
\* 0 when there is none.
PriceSource(smaller_bricks, sub, color_name) ==
    FirstIndex([i \in DOMAIN smaller_bricks |->
        /\ smaller_bricks[i].brick_type = sub.brick_type
        /\ ColorIndex(smaller_bricks[i].colors_data, color_name) # 0])

\* dict.get('price', 0): the default only when the key is absent; a null
\* price is returned as it is.
GetPrice(color_data) ==
    IF color_data.price = AbsentPrice THEN 0 ELSE color_data.price

\* color_data.get('price', 0) of that entry.
UnitPrice(smaller_bricks, sub, color_name) ==
    LET k == PriceSource(smaller_bricks, sub, color_name)
    IN  IF k = 0 THEN 0
        ELSE GetPrice(smaller_bricks[k].colors_data[
                 ColorIndex(smaller_bricks[k].colors_data, color_name)])

\* None * quantity raises TypeError.
PriceRaises(smaller_bricks, substitutes, color_name) ==
    \E i \in DOMAIN substitutes :
        UnitPrice(smaller_bricks, substitutes[i], color_name) = NoPrice

\* lines 211-219: total_price over the substitute lines.
RECURSIVE TotalPriceFrom(_, _, _, _)
TotalPriceFrom(smaller_bricks, substitutes, color_name, i) ==
    IF i > Len(substitutes) THEN 0
    ELSE UnitPrice(smaller_bricks, substitutes[i], color_name) * substitutes[i].quantity
         + TotalPriceFrom(smaller_bricks, substitutes, color_name, i + 1)

TotalPrice(smaller_bricks, substitutes, color_name) ==
    TotalPriceFrom(smaller_bricks, substitutes, color_name, 1)

\* lines 222-229: new_color_entry.
NewColorEntry(smaller_bricks, substitutes, color_name) ==
    [color_name    |-> color_name,
     element_id    |-> <<>>,
     rgb           |-> RgbValue(smaller_bricks, color_name),
     price         |-> Round2(TotalPrice(smaller_bricks, substitutes, color_name)),
     is_substitute |-> TRUE,
     substitutes   |-> substitutes]

\* The substitutes found for one missing colour of brick_info.
SubstitutesFor(data, brick_info, color_name) ==
    find_efficient_substitute(brick_info.width, brick_info.length,
                              SmallerBricks(data, brick_info), color_name)

\* The loop over the missing colours left after its first append.
AppendedFirstOnly(data, brick_info, names, i) ==
    LET found == {k \in i..Len(names) :
                     Truthy(SubstitutesFor(data, brick_info, names[k]))}
    IN  IF found = {} THEN <<>>
        ELSE LET k == CHOOSE m \in found : \A n \in found : m <= n
             IN  <<NewColorEntry(SmallerBricks(data, brick_info),
                                 SubstitutesFor(data, brick_info, names[k]).list,
                                 names[k])>>

\* The loop over the missing colours leaving at the first colour for which
\* no substitutes are found.
RECURSIVE AppendedUntilFailure(_, _, _, _)
AppendedUntilFailure(data, brick_info, names, i) ==
    IF i > Len(names) THEN <<>>
    ELSE LET result == SubstitutesFor(data, brick_info, names[i])
         IN  IF Truthy(result)
             THEN <<NewColorEntry(SmallerBricks(data, brick_info), result.list, names[i])>>
                      \o AppendedUntilFailure(data, brick_info, names, i + 1)
             ELSE <<>>

\* lines 192-231: the entries appended for the colours of `names` (in that
\* order), from index i on.
RECURSIVE AppendedFrom(_, _, _, _)
AppendedFrom(data, brick_info, names, i) ==
    IF i > Len(names) THEN <<>>
    ELSE LET result == SubstitutesFor(data, brick_info, names[i])
             rest == AppendedFrom(data, brick_info, names, i + 1)
         IN  IF Truthy(result)
             THEN <<NewColorEntry(SmallerBricks(data, brick_info), result.list, names[i])>>
                      \o rest
             ELSE rest

\* Whether the loop over the missing colours raises (at a null price).
AugmentRaises(data, brick_info) ==
    \E c \in MissingColors(data, brick_info) :
        LET result == SubstitutesFor(data, brick_info, c)
        IN  Truthy(result)
            /\ PriceRaises(SmallerBricks(data, brick_info), result.list, c)

\* new_brick with the substitute entries put before the existing colours.
NewBrickSubstitutesFirst(data, brick_info) ==
    LET colors == AppendedFrom(data, brick_info,
                      SortedColors(MissingColors(data, brick_info)), 1)
                      \o brick_info.colors_data
    IN  [element_id |-> brick_info.element_id,
         brick_type |-> brick_info.brick_type,
         num_colors |-> Len(colors),
         colors     |-> colors]

\* lines 184-234: new_brick.
NewBrick(data, brick_info) ==
    LET colors == brick_info.colors_data
                      \o AppendedFrom(data, brick_info,
                             SortedColors(MissingColors(data, brick_info)), 1)
    IN  [element_id |-> brick_info.element_id,
         brick_type |-> brick_info.brick_type,
         num_colors |-> Len(colors),
         colors     |-> colors]

(***************************************************************************)
(* Input documents: what the scraper saves.                                *)
(***************************************************************************)
Reverse(s) == [i \in DOMAIN s |-> s[Len(s) + 1 - i]]

\* A colour variant as the scraper records it (scraper.py, ColorVariant).
RawColor(t, c) ==
    [color_name    |-> c,
     element_id    |-> <<t, c>>,
     rgb           |-> <<"rgb", t, c>>,
     price         |-> 10 * calculate_size(t[2][1], t[2][2]) + 50,
     is_substitute |-> FALSE,
     substitutes   |-> <<>>]

\* A colour variant of the scraper with a null rgb or a null or absent price
\* (rgb: str | None, price: float | None).
ScrapedColor(t, c, rgb, price) ==
    [color_name    |-> c,
     element_id    |-> <<t, c>>,
     rgb           |-> rgb,
     price         |-> price,
     is_substitute |-> FALSE,
     substitutes   |-> <<>>]

\* A piece record with the colour variants `colors`.
ScrapedPiece(t, colors) ==
    [element_id |-> <<"base", t>>,
     brick_type |-> t,
     num_colors |-> Len(colors),
     colors     |-> colors]

\* A piece record with the colours S (scraper.py, BrickItem); num_colors is
\* len(colors).
RawPiece(t, S) ==
    LET names == Reverse(SortedColors(S))
    IN  [element_id |-> <<"base", t>>,
         brick_type |-> t,
         num_colors |-> Len(names),
         colors     |-> [i \in DOMAIN names |-> RawColor(t, names[i])]]

\* A document of n pieces: labels ts[i] with the colours cs[i].
Catalog(n, ts, cs) == [i \in 1..n |-> RawPiece(ts[i], cs[i])]

\* The labels of TypeOrder at the positions sel, in that order or, with
\* rev, in the reverse order: each brick type is listed once.
Listing(sel, rev) ==
    LET positions == SelectSeq([i \in DOMAIN TypeOrder |-> i], LAMBDA i : i \in sel)
        labels == [k \in DOMAIN positions |-> TypeOrder[positions[k]]]
    IN  IF rev THEN Reverse(labels) ELSE labels

\* The labels of `order` at the positions sel, in that order or, with rev,
\* in the reverse order.
ListingOf(order, sel, rev) ==
    LET positions == SelectSeq([i \in DOMAIN order |-> i], LAMBDA i : i \in sel)
        labels == [k \in DOMAIN positions |-> order[positions[k]]]
    IN  IF rev THEN Reverse(labels) ELSE labels

(***************************************************************************)
(* analyze_missing_colors.py                                               *)
(***************************************************************************)
\* The brick_type labels of a document.
Labels(data) == {data[i].brick_type : i \in DOMAIN data}

\* lines 71-84: the missing colours reported for one brick; nothing is
\* reported for a brick without smaller bricks.
ReportedMissing(data, brick_info) ==
    LET smaller_bricks == SmallerBricks(data, brick_info)
    IN  IF smaller_bricks = <<>> THEN {}
        ELSE AllColorsInSmaller(smaller_bricks) \ ColorNameSet(brick_info.colors_data)

\* The report of the run: brick_type -> missing colours.
MissingReport(data) ==
    [l \in Labels(data) |->
        LET i == CHOOSE k \in DOMAIN data : data[k].brick_type = l
        IN  ReportedMissing(data, ParsedBricks(data)[i])]

(***************************************************************************)
(* analyze_substitutes.py                                                  *)
(***************************************************************************)
\* colors_direct: the names of the entries not flagged is_substitute.
DirectColorNames(colors) ==
    {colors[i].color_name : i \in {k \in DOMAIN colors : ~colors[k].is_substitute}}

\* lines 52-81: piece_info, a dict keyed by brick_type (a later record of
\* the same label replaces an earlier one).
PieceInfo(data) ==
    [l \in Labels(data) |->
        LET i == CHOOSE k \in DOMAIN data :
                     /\ data[k].brick_type = l
                     /\ \A j \in DOMAIN data : data[j].brick_type = l => j <= k
            p == parse_brick_type(l)
        IN  [type_name        |-> p.type_name,
             size             |-> calculate_size(p.width, p.length),
             width            |-> p.width,
             length           |-> p.length,
             colors_with_subs |-> ColorNameSet(data[i].colors),
             colors_direct    |-> DirectColorNames(data[i].colors)]]

\* smaller_pieces with the size comparison turned round.
SmallerPiecesFlipped(piece_info, l) ==
    {bt \in DOMAIN piece_info :
        /\ piece_info[bt].type_name = piece_info[l].type_name
        /\ piece_info[bt].size > piece_info[l].size}

\* lines 94-97: smaller_pieces of the piece labelled l.
SmallerPieces(piece_info, l) ==
    {bt \in DOMAIN piece_info :
        /\ piece_info[bt].type_name = piece_info[l].type_name
        /\ piece_info[bt].size < piece_info[l].size}

\* lines 99-108: the colours still missing on the piece labelled l.
StillMissing(piece_info, l) ==
    LET smaller_pieces == SmallerPieces(piece_info, l)
        all_smaller_colors ==
            UNION {piece_info[bt].colors_with_subs : bt \in smaller_pieces}
    IN  IF smaller_pieces = {} THEN {}
        ELSE all_smaller_colors \ piece_info[l].colors_with_subs

\* The "MISSING SUBSTITUTES ANALYSIS" report: brick_type -> colours.
StillMissingReport(data) ==
    [l \in Labels(data) |-> StillMissing(PieceInfo(data), l)]

(***************************************************************************)
(* create_universal_palette.py                                             *)
(***************************************************************************)
\* lines 41-48: the last record labelled `label`; 0 stands for None.
FindPiece(data, label) ==
    IF \E i \in DOMAIN data : data[i].brick_type = label
    THEN CHOOSE i \in DOMAIN data :
             /\ data[i].brick_type = label
             /\ \A j \in DOMAIN data : data[j].brick_type = label => j <= i
    ELSE 0

Brick1x1(data) == FindPiece(data, <<"BRICK", <<1, 1>>>>)

Plate1x1(data) == FindPiece(data, <<"PLATE", <<1, 1>>>>)

\* line 50 taking a reference unit without colours for a missing one.
ReferenceMissingOrEmpty(data) ==
    IF Brick1x1(data) = 0 \/ Plate1x1(data) = 0 THEN TRUE
    ELSE data[Brick1x1(data)].colors = <<>> \/ data[Plate1x1(data)].colors = <<>>

\* line 50: if not brick_1x1 or not plate_1x1
ReferenceMissing(data) == Brick1x1(data) = 0 \/ Plate1x1(data) = 0

\* universal_colors with "|" for "&".
UniversalColorsUnion(data) ==
    DirectColorNames(data[Brick1x1(data)].colors)
        \cup DirectColorNames(data[Plate1x1(data)].colors)

\* universal_colors taken from the brick alone.
UniversalColorsBrickOnly(data) == DirectColorNames(data[Brick1x1(data)].colors)

\* lines 55-66: universal_colors = brick_1x1_colors & plate_1x1_colors,
\* the direct colours only.
UniversalColors(data) ==
    DirectColorNames(data[Brick1x1(data)].colors)
        \cap DirectColorNames(data[Plate1x1(data)].colors)

\* filtered_piece with num_colors counted before the filter.
FilteredPieceOldCount(piece, palette) ==
    [element_id |-> piece.element_id,
     brick_type |-> piece.brick_type,
     num_colors |-> Len(piece.colors),
     colors     |-> SelectSeq(piece.colors, LAMBDA c : c.color_name \in palette)]

\* filtered_colors without the substitute entries: only direct variants of
\* palette colours are kept.
FilteredPieceDirectOnly(piece, palette) ==
    LET filtered_colors == SelectSeq(piece.colors,
            LAMBDA c : c.color_name \in palette /\ ~c.is_substitute)
    IN  [element_id |-> piece.element_id,
         brick_type |-> piece.brick_type,
         num_colors |-> Len(filtered_colors),
         colors     |-> filtered_colors]

\* lines 108-121: one piece filtered to the palette.
FilteredPiece(piece, palette) ==
    LET filtered_colors == SelectSeq(piece.colors, LAMBDA c : c.color_name \in palette)
    IN  [element_id |-> piece.element_id,
         brick_type |-> piece.brick_type,
         num_colors |-> Len(filtered_colors),
         colors     |-> filtered_colors]

\* The filter loop without "if filtered_colors:": every piece is appended.
FilterKeepingEmpty(data, palette, i) ==
    [k \in 1..(Len(data) + 1 - i) |->
        [element_id |-> data[i + k - 1].element_id,
         brick_type |-> data[i + k - 1].brick_type,
         num_colors |-> Len(SelectSeq(data[i + k - 1].colors,
                                      LAMBDA c : c.color_name \in palette)),
         colors     |-> SelectSeq(data[i + k - 1].colors,
                                  LAMBDA c : c.color_name \in palette)]]

\* lines 104-122: filtered_data; a piece left without colours is not
\* appended.
RECURSIVE FilterFrom(_, _, _)
FilterFrom(data, palette, i) ==
    IF i > Len(data) THEN <<>>
    ELSE LET filtered_piece == FilteredPiece(data[i], palette)
         IN  IF filtered_piece.colors # <<>>
             THEN <<filtered_piece>> \o FilterFrom(data, palette, i + 1)
             ELSE FilterFrom(data, palette, i + 1)

FilterData(data, palette) == FilterFrom(data, palette, 1)

\* The grouping with every piece appended to bricks_by_type['BRICK'].
FamilyColorsOneKey(filtered, type_name) ==
    IF type_name = "BRICK"
    THEN UNION {ColorNameSet(filtered[i].colors) : i \in DOMAIN filtered}
    ELSE {}

\* lines 147-163: the colour names of the filtered pieces of one family.
FamilyColors(filtered, type_name) ==
    UNION {ColorNameSet(filtered[i].colors) :
              i \in {k \in DOMAIN filtered :
                        parse_brick_type(filtered[k].brick_type).type_name = type_name}}

\* line 151: bricks_by_type has the keys 'BRICK' and 'PLATE' only.
VerifyRaises(filtered) ==
    \E i \in DOMAIN filtered :
        parse_brick_type(filtered[i].brick_type).type_name \notin Families

\* lines 168-175: the verdict, and for each family the difference printed
\* when its colours do not match.
Verdict(filtered, palette) ==
    LET all_brick_colors == FamilyColors(filtered, "BRICK")
        all_plate_colors == FamilyColors(filtered, "PLATE")
        match == all_brick_colors = all_plate_colors /\ all_plate_colors = palette
    IN  [match    |-> match,
         reported |-> IF match THEN {}
                      ELSE {f \in Families : FamilyColors(filtered, f) # palette},
         diff     |-> [f \in Families |-> FamilyColors(filtered, f) \ palette]]

(***************************************************************************)
(* State.                                                                  *)
(***************************************************************************)
VARIABLES
    pc,               \* the step of the pipeline that runs next
    bricks_data,      \* bricks_and_plates.json
    missing_report,   \* analyze_missing_colors: brick_type -> missing colours
    new_bricks_data,  \* generate_with_substitutes: the list being built
    substitutes_file, \* bricks_and_plates_with_substitutes.json
    still_missing,    \* analyze_substitutes: brick_type -> colours still missing
    universal_colors, \* create_universal_palette: the palette
    filtered_data,    \* create_universal_palette: the filtered list
    verdict,          \* create_universal_palette: the consistency check
    universal_file,   \* bricks_and_plates_universal.json
    refiltered        \* the filter loop run on the universal catalog

vars == <<pc, bricks_data, missing_report, new_bricks_data, substitutes_file,
          still_missing, universal_colors, filtered_data, verdict,
          universal_file, refiltered>>

generate_vars == <<new_bricks_data, substitutes_file>>

palette_vars == <<universal_colors, filtered_data, verdict, universal_file, refiltered>>

NoVerdict == [match |-> FALSE, reported |-> {}, diff |-> [f \in Families |-> {}]]

\* The state before any script has run, for the input document
\* Catalog(n, ts, cs).
InitWith(n, ts, cs) ==
    /\ pc = "analyze_missing"
    /\ bricks_data = Catalog(n, ts, cs)
    /\ missing_report = <<>>
    /\ new_bricks_data = <<>>
    /\ substitutes_file = <<>>
    /\ still_missing = <<>>
    /\ universal_colors = {}
    /\ filtered_data = <<>>
    /\ verdict = NoVerdict
    /\ universal_file = <<>>
    /\ refiltered = <<>>

Init ==
    \E sel \in SUBSET DOMAIN TypeOrder :
      \E rev \in BOOLEAN :
        /\ Cardinality(sel) <= MaxPieces
        /\ LET ts == Listing(sel, rev)
           IN  \E cs \in [DOMAIN ts -> SUBSET Colors] : InitWith(Len(ts), ts, cs)

\* analyze_missing_colors.main
AnalyzeMissingColors ==
    /\ pc = "analyze_missing"
    /\ missing_report' = MissingReport(bricks_data)
    /\ pc' = "generate"
    /\ UNCHANGED <<bricks_data, generate_vars, still_missing, palette_vars>>

\* One iteration of "for brick_info in parsed_bricks" (lines 161-236).
AugmentPiece ==
    /\ pc = "generate"
    /\ Len(new_bricks_data) < Len(bricks_data)
    /\ LET brick_info == ParsedBricks(bricks_data)[Len(new_bricks_data) + 1]
       IN  IF AugmentRaises(bricks_data, brick_info)
           THEN /\ pc' = "generate_raised"
                /\ UNCHANGED new_bricks_data
           ELSE /\ new_bricks_data' =
                       Append(new_bricks_data, NewBrick(bricks_data, brick_info))
                /\ UNCHANGED pc
    /\ UNCHANGED <<bricks_data, missing_report, substitutes_file, still_missing,
                   palette_vars>>

\* json.dump(new_bricks_data, f) (lines 239-240).
WriteSubstitutes ==
    /\ pc = "generate"
    /\ Len(new_bricks_data) = Len(bricks_data)
    /\ substitutes_file' = new_bricks_data
    /\ pc' = "analyze_substitutes"
    /\ UNCHANGED <<bricks_data, missing_report, new_bricks_data, still_missing,
                   palette_vars>>

\* analyze_substitutes.main
AnalyzeSubstitutes ==
    /\ pc = "analyze_substitutes"
    /\ still_missing' = StillMissingReport(substitutes_file)
    /\ pc' = "palette"
    /\ UNCHANGED <<bricks_data, missing_report, generate_vars, palette_vars>>

\* create_universal_palette.main, lines 40-52: no reference unit, the script
\* returns without output.
NoReferenceUnit ==
    /\ pc = "palette"
    /\ ReferenceMissing(substitutes_file)
    /\ pc' = "no_reference"
    /\ UNCHANGED <<bricks_data, missing_report, generate_vars, still_missing,
                   palette_vars>>

\* create_universal_palette.main, lines 40-66: the palette.
DerivePalette ==
    /\ pc = "palette"
    /\ ~ReferenceMissing(substitutes_file)
    /\ universal_colors' = UniversalColors(substitutes_file)
    /\ pc' = "filter"
    /\ UNCHANGED <<bricks_data, missing_report, generate_vars, still_missing,
                   filtered_data, verdict, universal_file, refiltered>>

\* create_universal_palette.main, lines 94-126: the filter loop.
FilterPieces ==
    /\ pc = "filter"
    /\ filtered_data' = FilterData(substitutes_file, universal_colors)
    /\ pc' = "verify"
    /\ UNCHANGED <<bricks_data, missing_report, generate_vars, still_missing,
                   universal_colors, verdict, universal_file, refiltered>>

\* create_universal_palette.main, lines 147-175: the consistency check.
VerifyConsistency ==
    /\ pc = "verify"
    /\ IF VerifyRaises(filtered_data)
       THEN pc' = "verify_raised" /\ UNCHANGED verdict
       ELSE pc' = "write_universal"
            /\ verdict' = Verdict(filtered_data, universal_colors)
    /\ UNCHANGED <<bricks_data, missing_report, generate_vars, still_missing,
                   universal_colors, filtered_data, universal_file, refiltered>>

\* create_universal_palette.main, lines 180-181.
WriteUniversal ==
    /\ pc = "write_universal"
    /\ universal_file' = filtered_data
    /\ pc' = "refilter"
    /\ UNCHANGED <<bricks_data, missing_report, generate_vars, still_missing,
                   universal_colors, filtered_data, verdict, refiltered>>

\* The filter loop (lines 104-122) run again, on the universal catalog with
\* the same palette.
Refilter ==
    /\ pc = "refilter"
    /\ refiltered' = FilterData(universal_file, universal_colors)
    /\ pc' = "done"
    /\ UNCHANGED <<bricks_data, missing_report, generate_vars, still_missing,
                   universal_colors, filtered_data, verdict, universal_file>>

Next ==
    \/ AnalyzeMissingColors
    \/ AugmentPiece
    \/ WriteSubstitutes
    \/ AnalyzeSubstitutes
    \/ NoReferenceUnit
    \/ DerivePalette
    \/ FilterPieces
    \/ VerifyConsistency
    \/ WriteUniversal
    \/ Refilter

Spec == Init /\ [][Next]_vars

(***************************************************************************)
(* generate_with_substitutes.py run alone on documents whose prices are    *)
(* null, absent, or a number of mills that is no whole number of cents.    *)
(***************************************************************************)
\* The state when generate_with_substitutes has loaded the document `data`.
InitGenerate(data) ==
    /\ pc = "generate"
    /\ bricks_data = data
    /\ missing_report = <<>>
    /\ new_bricks_data = <<>>
    /\ substitutes_file = <<>>
    /\ still_missing = <<>>
    /\ universal_colors = {}
    /\ filtered_data = <<>>
    /\ verdict = NoVerdict
    /\ universal_file = <<>>
    /\ refiltered = <<>>

\* The labels of these documents: bricks one stud wide.
PriceOrder ==
    << <<"BRICK", <<1, 1>>>>, <<"BRICK", <<1, 2>>>>,
       <<"BRICK", <<1, 3>>>>, <<"BRICK", <<1, 4>>>> >>

\* The prices a variant may have: null, absent, or (for a piece of area a)
\* 10 * a + 54 mills.
PriceKinds == {NoPrice, AbsentPrice, 54}

PriceOf(t, kind) ==
    IF kind \in {NoPrice, AbsentPrice} THEN kind
    ELSE 10 * calculate_size(t[2][1], t[2][2]) + kind

\* A piece that has the colour Red at the given price, or no colour.
PricedPiece(t, sold, kind) ==
    ScrapedPiece(t, IF sold
                    THEN <<ScrapedColor(t, "Red", <<"rgb", t, "Red">>, PriceOf(t, kind))>>
                    ELSE <<>>)

PriceInit ==
    \E sel \in SUBSET DOMAIN PriceOrder :
      \E rev \in BOOLEAN :
        /\ Cardinality(sel) <= MaxPieces
        /\ LET ts == ListingOf(PriceOrder, sel, rev)
           IN  \E sold \in [DOMAIN ts -> BOOLEAN] :
                 \E kinds \in [DOMAIN ts -> PriceKinds] :
                   InitGenerate([i \in DOMAIN ts |->
                                    PricedPiece(ts[i], sold[i], kinds[i])])

PriceNext ==
    \/ AugmentPiece
    \/ WriteSubstitutes

PriceSpec == PriceInit /\ [][PriceNext]_vars

(***************************************************************************)
(* generate_with_substitutes.py run alone on documents whose labels may    *)
(* not have the form "<FAMILY> <W>X<L>".                                   *)
(***************************************************************************)
\* The labels of these documents: "BRICK 1X1", "BRICK 1X2", "BRICK 1X3",
\* "BRICK 1X2 EXTRA", "BRICK 1X2X6", "BRICK", "BRICK 2", "BRICK AX2" and
\* "BRICK 1XB".
LabelOrder ==
    << <<"BRICK", <<1, 1>>>>, <<"BRICK", <<1, 2>>>>, <<"BRICK", <<1, 3>>>>,
       <<"BRICK", <<1, 2>>, "EXTRA">>, <<"BRICK", <<1, 2, 6>>>>,
       <<"BRICK">>, <<"BRICK", <<2>>>>,
       <<"BRICK", <<NotANumber, 2>>>>, <<"BRICK", <<1, NotANumber>>>> >>

\* A piece labelled t that has the colour Red, or no colour.
LabelledPiece(t, sold) ==
    ScrapedPiece(t, IF sold THEN <<ScrapedColor(t, "Red", <<"rgb", t, "Red">>, 60)>>
                    ELSE <<>>)

LabelInit ==
    \E sel \in SUBSET DOMAIN LabelOrder :
      \E rev \in BOOLEAN :
        /\ Cardinality(sel) <= MaxPieces
        /\ LET ts == ListingOf(LabelOrder, sel, rev)
           IN  \E sold \in [DOMAIN ts -> BOOLEAN] :
                 /\ InitGenerate([i \in DOMAIN ts |-> LabelledPiece(ts[i], sold[i])])

\* generate_with_substitutes, lines 131-156: every label is parsed before
\* the first piece is processed; an exception ends the run.
ParseBricks ==
    /\ pc = "generate"
    /\ new_bricks_data = <<>>
    /\ \E i \in DOMAIN bricks_data : ParseRaises(bricks_data[i].brick_type)
    /\ pc' = "parse_raised"
    /\ UNCHANGED <<bricks_data, missing_report, generate_vars, still_missing,
                   palette_vars>>

\* The loop and the write of a run in which every label was parsed.
AugmentParsed ==
    /\ \A i \in DOMAIN bricks_data : ~ParseRaises(bricks_data[i].brick_type)
    /\ \/ AugmentPiece
       \/ WriteSubstitutes

LabelNext ==
    \/ ParseBricks
    \/ AugmentParsed

LabelSpec == LabelInit /\ [][LabelNext]_vars

(***************************************************************************)
(* generate_with_substitutes.py run alone on documents of bricks up to     *)
(* 4X4, some too long to fit the larger ones, in one colour whose rgb may  *)
(* be null.                                                                *)
(***************************************************************************)
\* The labels of these documents, in the order a document lists them.
FootprintOrder ==
    << <<"BRICK", <<2, 4>>>>, <<"BRICK", <<1, 1>>>>, <<"BRICK", <<1, 6>>>>,
       <<"BRICK", <<2, 2>>>>, <<"BRICK", <<1, 4>>>>, <<"BRICK", <<4, 4>>>>,
       <<"BRICK", <<1, 2>>>>, <<"BRICK", <<1, 5>>>> >>

\* What a piece has of the colour Red: no variant, a variant with an rgb
\* value, or a variant whose rgb is null.
RgbKinds == {"none", "rgb", "null"}

FootprintPiece(t, kind) ==
    ScrapedPiece(t,
        IF kind = "none" THEN <<>>
        ELSE <<ScrapedColor(t, "Red",
                            IF kind = "rgb" THEN <<"rgb", t, "Red">> ELSE <<>>,
                            10 * calculate_size(t[2][1], t[2][2]) + 50)>>)

FootprintInit ==
    \E sel \in SUBSET DOMAIN FootprintOrder :
      \E rev \in BOOLEAN :
        /\ Cardinality(sel) <= MaxPieces
        /\ LET ts == ListingOf(FootprintOrder, sel, rev)
           IN  \E kinds \in [DOMAIN ts -> RgbKinds] :
                 InitGenerate([i \in DOMAIN ts |-> FootprintPiece(ts[i], kinds[i])])

FootprintNext ==
    \/ AugmentPiece
    \/ WriteSubstitutes

FootprintSpec == FootprintInit /\ [][FootprintNext]_vars

(***************************************************************************)
(* The loop of generate_with_substitutes (lines 161-236) with its          *)
(* iterations taken in any order, each writing the record of its own piece *)
(* into the piece's place of new_bricks_data.                              *)
(***************************************************************************)
\* The place of a piece whose record has not been written.
Unwritten == [element_id |-> <<>>, brick_type |-> <<>>, num_colors |-> 0, colors |-> <<>>]

IsWritten(new_data, i) ==
    IF i \in DOMAIN new_data THEN new_data[i].brick_type # <<>> ELSE FALSE

\* new_brick['colors'] bound to brick_info['colors_data'] itself, without
\* list(): the entries appended to a record show in the loaded document.
BricksDataShared(data, new_data) ==
    [i \in DOMAIN data |->
        IF IsWritten(new_data, i)
        THEN [data[i] EXCEPT !.colors = new_data[i].colors]
        ELSE data[i]]

\* The loaded document as parsed_bricks and bricks_by_type hold it when the
\* records new_data have been built: line 188 copies the colour list of a
\* piece, and line 231 appends to the copy, so the document stays as loaded.
BricksDataAfter(data, new_data) == data

\* The loop of lines 161-236 in file order, continued from the records
\* new_data.
RECURSIVE GenerateFrom(_, _)
GenerateFrom(data, new_data) ==
    IF Len(new_data) >= Len(data) THEN new_data
    ELSE LET loaded == BricksDataAfter(data, new_data)
         IN  GenerateFrom(data,
                 Append(new_data,
                        NewBrick(loaded, ParsedBricks(loaded)[Len(new_data) + 1])))

\* The labels of these documents, in the order a document lists them.
OrderLabels ==
    << <<"BRICK", <<1, 3>>>>, <<"BRICK", <<1, 1>>>>, <<"PLATE", <<1, 1>>>>,
       <<"BRICK", <<2, 2>>>>, <<"BRICK", <<1, 2>>>> >>

OrderInit ==
    \E sel \in SUBSET DOMAIN OrderLabels :
      \E rev \in BOOLEAN :
        /\ Cardinality(sel) <= MaxPieces
        /\ LET ts == ListingOf(OrderLabels, sel, rev)
           IN  \E cs \in [DOMAIN ts -> SUBSET Colors] :
                 /\ pc = "generate"
                 /\ bricks_data = Catalog(Len(ts), ts, cs)
                 /\ missing_report = <<>>
                 /\ new_bricks_data = [i \in DOMAIN ts |-> Unwritten]
                 /\ substitutes_file = <<>>
                 /\ still_missing = <<>>
                 /\ universal_colors = {}
                 /\ filtered_data = <<>>
                 /\ verdict = NoVerdict
                 /\ universal_file = <<>>
                 /\ refiltered = <<>>

\* One iteration of the loop (lines 161-236) for any piece whose record has
\* not been written.  The prices of these documents are numbers.
AugmentAnyPiece ==
    /\ pc = "generate"
    /\ \E i \in DOMAIN bricks_data :
         /\ ~IsWritten(new_bricks_data, i)
         /\ LET loaded == BricksDataAfter(bricks_data, new_bricks_data)
            IN  new_bricks_data' =
                    [new_bricks_data EXCEPT
                        ![i] = NewBrick(loaded, ParsedBricks(loaded)[i])]
    /\ UNCHANGED <<pc, bricks_data, missing_report, substitutes_file, still_missing,
                   palette_vars>>

\* json.dump(new_bricks_data, f) (lines 239-240), when every record is
\* written.
WriteAllPieces ==
    /\ pc = "generate"
    /\ \A i \in DOMAIN bricks_data : IsWritten(new_bricks_data, i)
    /\ substitutes_file' = new_bricks_data
    /\ pc' = "analyze_substitutes"
    /\ UNCHANGED <<bricks_data, missing_report, new_bricks_data, still_missing,
                   palette_vars>>

OrderNext ==
    \/ AugmentAnyPiece
    \/ WriteAllPieces

OrderSpec == OrderInit /\ [][OrderNext]_vars

(***************************************************************************)
(* Vocabulary of the properties, stated on the documents themselves.       *)
(***************************************************************************)
FamilyOf(piece) == piece.brick_type[1]

AreaOf(piece) == piece.brick_type[2][1] * piece.brick_type[2][2]

NamesOf(piece) == {piece.colors[k].color_name : k \in DOMAIN piece.colors}

DirectNamesOf(piece) ==
    {piece.colors[k].color_name :
        k \in {m \in DOMAIN piece.colors : ~piece.colors[m].is_substitute}}

SubstituteNamesOf(piece) ==
    {piece.colors[k].color_name :
        k \in {m \in DOMAIN piece.colors : piece.colors[m].is_substitute}}

\* The pieces of data strictly smaller than piece i, in its family.
SmallerOf(data, i) ==
    {j \in DOMAIN data : /\ FamilyOf(data[j]) = FamilyOf(data[i])
                         /\ AreaOf(data[j]) < AreaOf(data[i])}

\* The colours the strictly smaller pieces of piece i's family carry directly.
AvailableBelow(data, i) == UNION {DirectNamesOf(data[j]) : j \in SmallerOf(data, i)}

\* The smallest pieces of piece i's family.
SmallestOf(data, i) ==
    {j \in DOMAIN data : /\ FamilyOf(data[j]) = FamilyOf(data[i])
                         /\ \A k \in DOMAIN data :
                              FamilyOf(data[k]) = FamilyOf(data[i])
                                  => AreaOf(data[j]) <= AreaOf(data[k])}

\* The augmented catalog has been written.
Augmented == pc \notin {"analyze_missing", "generate", "generate_raised"}

\* analyze_substitutes has reported.
Analyzed == Augmented /\ pc # "analyze_substitutes"

\* generate_with_substitutes is at a piece of its loop, and which one.
AtPiece == pc = "generate" /\ Len(new_bricks_data) < Len(bricks_data)

PieceAt == Len(new_bricks_data) + 1

\* The area a composition covers.
RECURSIVE CoveredArea(_)
CoveredArea(substitutes) ==
    IF substitutes = <<>> THEN 0
    ELSE LET sub == Head(substitutes)
         IN  sub.brick_type[2][1] * sub.brick_type[2][2] * sub.quantity
                 + CoveredArea(Tail(substitutes))

(***************************************************************************)
(* C1.  Every substitute colour variant of the augmented catalog (while it *)
(* is built and once written) lists pieces whose areas times quantities    *)
(* sum to the area of the piece, and every composition                     *)
(* find_efficient_substitute returns for a missing colour of the piece the *)
(* loop is at covers exactly the target area.                              *)
(***************************************************************************)
C1_ExactArea ==
    /\ \A data \in {new_bricks_data, substitutes_file} :
         \A i \in DOMAIN data :
           \A k \in DOMAIN data[i].colors :
             data[i].colors[k].is_substitute
                 => CoveredArea(data[i].colors[k].substitutes) = AreaOf(data[i])
    /\ AtPiece =>
         \A c \in MissingColors(bricks_data, BrickInfo(bricks_data[PieceAt])) :
           LET result == SubstitutesFor(bricks_data, BrickInfo(bricks_data[PieceAt]), c)
           IN  ~result.none => CoveredArea(result.list) = AreaOf(bricks_data[PieceAt])

\* A written substitute variant made of two different pieces.
C1_Witness ==
    /\ Augmented
    /\ \E i \in DOMAIN substitutes_file :
         \E k \in DOMAIN substitutes_file[i].colors :
           /\ substitutes_file[i].colors[k].is_substitute
           /\ Len(substitutes_file[i].colors[k].substitutes) >= 2

(***************************************************************************)
(* C2 as claimed.  After augmentation every piece carries every colour the *)
(* smallest piece(s) of its family carry directly.                         *)
(***************************************************************************)
C2_Original ==
    Augmented =>
        \A i \in DOMAIN substitutes_file :
          \A j \in SmallestOf(bricks_data, i) :
            DirectNamesOf(bricks_data[j]) \subseteq NamesOf(substitutes_file[i])

(***************************************************************************)
(* C2 amended.  After augmentation every piece carries every colour the    *)
(* strictly smaller smallest piece(s) of its family carry directly, except *)
(* the colours for which find_efficient_substitute returns no composition; *)
(* when the smallest piece is the 1X1 unit nothing is excepted.            *)
(***************************************************************************)
C2_SmallestColorsUnlessNoCover ==
    Augmented =>
        \A i \in DOMAIN substitutes_file :
          \A j \in SmallestOf(bricks_data, i) \cap SmallerOf(bricks_data, i) :
            \A c \in DirectNamesOf(bricks_data[j]) :
              \/ c \in NamesOf(substitutes_file[i])
              \/ /\ AreaOf(bricks_data[j]) # 1
                 /\ ~Truthy(SubstitutesFor(bricks_data, BrickInfo(bricks_data[i]), c))

\* A piece that got, as a substitute, a colour of its family's smallest
\* piece, which is not a unit piece.
C2_Witness ==
    /\ Augmented
    /\ \E i \in DOMAIN substitutes_file :
         \E j \in SmallestOf(bricks_data, i) \cap SmallerOf(bricks_data, i) :
           /\ AreaOf(bricks_data[j]) # 1
           /\ DirectNamesOf(bricks_data[j]) \cap SubstituteNamesOf(substitutes_file[i]) # {}

(***************************************************************************)
(* C3.  Once the "still missing" report is made, every colour carried      *)
(* directly by a strictly smaller same-family piece is on the piece in the *)
(* augmented catalog or listed for it in the report.                       *)
(***************************************************************************)
C3_CarriedOrReported ==
    Analyzed =>
        \A i \in DOMAIN bricks_data :
          \A c \in AvailableBelow(bricks_data, i) :
            \/ c \in NamesOf(substitutes_file[i])
            \/ c \in still_missing[bricks_data[i].brick_type]

\* A piece with one colour synthesized and another reported as unresolved.
C3_Witness ==
    /\ Analyzed
    /\ \E i \in DOMAIN bricks_data :
         /\ still_missing[bricks_data[i].brick_type] # {}
         /\ SubstituteNamesOf(substitutes_file[i]) # {}

(***************************************************************************)
(* C4.  Detection run again on the augmented catalog, substitute colours   *)
(* counted as available, reports nothing for a piece whose missing colours *)
(* were all synthesized.                                                   *)
(***************************************************************************)
C4_NothingMissingAfterSuccess ==
    Analyzed =>
        \A i \in DOMAIN bricks_data :
          (\A c \in MissingColors(bricks_data, BrickInfo(bricks_data[i])) :
               Truthy(SubstitutesFor(bricks_data, BrickInfo(bricks_data[i]), c)))
              => still_missing[bricks_data[i].brick_type] = {}

\* A piece whose missing colours were all synthesized, above a smaller
\* piece that itself carries a substitute colour.
C4_Witness ==
    /\ Analyzed
    /\ \E i \in DOMAIN bricks_data :
         /\ SubstituteNamesOf(substitutes_file[i]) # {}
         /\ MissingColors(bricks_data, BrickInfo(bricks_data[i]))
                \subseteq NamesOf(substitutes_file[i])
         /\ still_missing[bricks_data[i].brick_type] = {}
         /\ \E j \in SmallerOf(bricks_data, i) :
              SubstituteNamesOf(substitutes_file[j]) # {}

(***************************************************************************)
(* C5.  The filter loop run on the universal catalog with the same palette *)
(* returns the universal catalog unchanged: the same pieces in the same    *)
(* order, each with the same colour variants and the same num_colors.      *)
(***************************************************************************)
C5_FilterFixedPoint == pc = "done" => refiltered = universal_file

\* The filter was run twice on a catalog of four pieces, and its first run
\* removed a colour variant from a piece it kept.
C5_Witness ==
    /\ pc = "done"
    /\ Len(universal_file) = 4
    /\ \E i \in DOMAIN universal_file :
         \E j \in DOMAIN substitutes_file :
           /\ universal_file[i].brick_type = substitutes_file[j].brick_type
           /\ universal_file[i].num_colors < substitutes_file[j].num_colors

(***************************************************************************)
(* C6.  In the universal catalog the direct colour names of the reference  *)
(* unit of each family (BRICK 1X1, PLATE 1X1) are exactly the universal    *)
(* palette; the reference unit is absent only when the palette is empty.   *)
(***************************************************************************)
Filtered == pc \in {"verify", "verify_raised", "write_universal", "refilter", "done"}

ReferenceUnits(data, family) ==
    {i \in DOMAIN data : data[i].brick_type = <<family, <<1, 1>>>>}

C6_ReferenceCarriesPalette ==
    /\ Filtered =>
         \A f \in Families :
           /\ \A i \in ReferenceUnits(filtered_data, f) :
                DirectNamesOf(filtered_data[i]) = universal_colors
           /\ ReferenceUnits(filtered_data, f) = {} => universal_colors = {}
    /\ pc \in {"refilter", "done"} =>
         \A f \in Families :
           /\ \A i \in ReferenceUnits(universal_file, f) :
                DirectNamesOf(universal_file[i]) = universal_colors
           /\ ReferenceUnits(universal_file, f) = {} => universal_colors = {}

\* A written universal catalog holding both reference units, one of which
\* lost a colour to the filter.
C6_Witness ==
    /\ pc = "done"
    /\ \A f \in Families : ReferenceUnits(universal_file, f) # {}
    /\ \E j \in DOMAIN bricks_data :
         /\ AreaOf(bricks_data[j]) = 1
         /\ ~(NamesOf(bricks_data[j]) \subseteq universal_colors)

(***************************************************************************)
(* C7.  The universal palette is the intersection, over the families       *)
(* present in the augmented catalog, of the direct colour names of the     *)
(* family's reference unit, its piece of minimal area.                     *)
(***************************************************************************)
PaletteDerived == pc \in {"filter"} \/ Filtered

FamiliesPresent(data) == {FamilyOf(data[i]) : i \in DOMAIN data}

\* The pieces of minimal area of a family.
MinimalPieces(data, family) ==
    {i \in DOMAIN data :
        /\ FamilyOf(data[i]) = family
        /\ \A k \in DOMAIN data :
             FamilyOf(data[k]) = family => AreaOf(data[i]) <= AreaOf(data[k])}

KeptPositions(data, palette) ==
    {i \in DOMAIN data : NamesOf(data[i]) \cap palette # {}}

\* The positions of the variants of a piece named in the palette.
KeptVariants(piece, palette) ==
    {k \in DOMAIN piece.colors : piece.colors[k].color_name \in palette}

\* s is t restricted to the positions P, in order: the m-th element of s is
\* the element of t at the m-th smallest position of P.
IsRestriction(s, t, P) ==
    /\ Len(s) = Cardinality(P)
    /\ \A p \in P : s[Cardinality({q \in P : q <= p})] = t[p]

C8_WitnessRemoved ==
    /\ Filtered
    /\ Len(filtered_data) < Len(substitutes_file)
    /\ \E i \in DOMAIN substitutes_file : substitutes_file[i].colors # <<>>

(***************************************************************************)
(* C9.  The consistency check recomputes each family's colour names from   *)
(* the filtered catalog; it succeeds exactly when each family's set is the *)
(* palette, a family is reported exactly when its set differs, then with   *)
(* the symmetric difference, and the run goes on to write the universal    *)
(* catalog.                                                                *)
(***************************************************************************)
Verified == pc \in {"write_universal", "refilter", "done"}

FamilyNames(data, family) ==
    UNION {NamesOf(data[i]) : i \in {k \in DOMAIN data : FamilyOf(data[k]) = family}}

SymmetricDifference(A, B) == (A \ B) \cup (B \ A)

Missing(data, i) ==
    {c \in Colors :
        /\ c \notin NamesOf(data[i])
        /\ \E j \in DOMAIN data :
             /\ FamilyOf(data[j]) = FamilyOf(data[i])
             /\ AreaOf(data[j]) < AreaOf(data[i])
             /\ c \in NamesOf(data[j])}

C10_MissingColors ==
    /\ AtPiece =>
         MissingColors(bricks_data, BrickInfo(bricks_data[PieceAt])) =
             Missing(bricks_data, PieceAt)
    /\ pc # "analyze_missing" =>
         \A i \in DOMAIN bricks_data :
           missing_report[bricks_data[i].brick_type] = Missing(bricks_data, i)

\* The report is made; a piece misses a colour of a smaller piece, and a
\* piece does not miss a colour that only a piece of its own area carries.
C10_Witness ==
    /\ pc # "analyze_missing"
    /\ \E i \in DOMAIN bricks_data : missing_report[bricks_data[i].brick_type] # {}
    /\ \E i, j \in DOMAIN bricks_data :
         /\ i # j
         /\ FamilyOf(bricks_data[i]) = FamilyOf(bricks_data[j])
         /\ AreaOf(bricks_data[i]) = AreaOf(bricks_data[j])
         /\ \E c \in NamesOf(bricks_data[j]) :
              c \notin NamesOf(bricks_data[i])
                  /\ c \notin missing_report[bricks_data[i].brick_type]

(***************************************************************************)
(* C11.  The price of every substitute variant (while the augmented        *)
(* catalog is built and once written) is a whole number of cents, the      *)
(* nearest to the sum over its substitutes entries of the price of the     *)
(* colour's direct variant on the referenced piece times the quantity.     *)
(***************************************************************************)
\* The record of data labelled l.
PieceLabelled(data, l) == data[CHOOSE i \in DOMAIN data : data[i].brick_type = l]

\* The direct variant of colour c on a piece.
DirectVariant(piece, c) ==
    piece.colors[CHOOSE k \in DOMAIN piece.colors :
                     /\ piece.colors[k].color_name = c
                     /\ ~piece.colors[k].is_substitute]

\* The listed price of a variant, an absent one counting as 0.
ListedPrice(variant) == IF variant.price = AbsentPrice THEN 0 ELSE variant.price

RECURSIVE PriceSum(_, _, _)
PriceSum(data, substitutes, c) ==
    IF substitutes = <<>> THEN 0
    ELSE ListedPrice(DirectVariant(PieceLabelled(data, Head(substitutes).brick_type), c))
             * Head(substitutes).quantity
         + PriceSum(data, Tail(substitutes), c)

C11_PriceIsRoundedSum ==
    \A data \in {new_bricks_data, substitutes_file} :
      \A i \in DOMAIN data :
        \A k \in DOMAIN data[i].colors :
          LET v == data[i].colors[k]
              sum == PriceSum(bricks_data, v.substitutes, v.color_name)
          IN  v.is_substitute =>
                  /\ v.price % 10 = 0
                  /\ v.price - sum \in -5..5

\* A written substitute variant of two entries whose price was rounded.
C11_Witness ==
    /\ pc = "analyze_substitutes"
    /\ \E i \in DOMAIN substitutes_file :
         \E k \in DOMAIN substitutes_file[i].colors :
           LET v == substitutes_file[i].colors[k]
           IN  /\ v.is_substitute
               /\ Len(v.substitutes) >= 2
               /\ v.price # PriceSum(bricks_data, v.substitutes, v.color_name)

(***************************************************************************)
(* C12.  When the greedy pass for a missing colour of a piece leaves area  *)
(* uncovered and no candidate is a unit piece, the piece gets no variant   *)
(* of that colour, the other missing colours of the piece that can be      *)
(* synthesized are appended all the same, the run does not raise, and the  *)
(* written catalog holds every piece.                                      *)
(***************************************************************************)
\* generate_with_substitutes has just appended a piece, and which one.
PieceDone == pc = "generate" /\ Len(new_bricks_data) >= 1

LastDone == Len(new_bricks_data)

\* The state of the greedy pass (lines 65-99) for colour c of piece i.
GreedyPass(data, i, c) ==
    LET info == BrickInfo(data[i])
        candidates == SortDesc(Candidates(info.width, info.length,
                                          SmallerBricks(data, info), c))
    IN  [candidates |-> candidates,
         result     |-> GreedyFrom(candidates, 1, info.width, info.length,
                            [substitutes |-> <<>>,
                             remaining_area |-> info.size])]

\* Area is left uncovered after the greedy pass and no candidate is a unit.
Unfillable(data, i, c) ==
    LET pass == GreedyPass(data, i, c)
    IN  /\ pass.candidates # <<>>
        /\ pass.result.remaining_area > 0
        /\ \A k \in DOMAIN pass.candidates : pass.candidates[k].size # 1

C12_UnfillableIsSkipped ==
    /\ pc # "generate_raised"
    /\ Augmented => Len(substitutes_file) = Len(bricks_data)
    /\ PieceDone =>
         \A c \in Missing(bricks_data, LastDone) :
           Unfillable(bricks_data, LastDone, c) =>
             /\ c \notin NamesOf(new_bricks_data[LastDone])
             /\ \A d \in Missing(bricks_data, LastDone) :
                  Truthy(SubstitutesFor(bricks_data, BrickInfo(bricks_data[LastDone]), d))
                      => d \in SubstituteNamesOf(new_bricks_data[LastDone])

\* A piece with a colour left after a partial greedy pass, a later colour
\* that was synthesized, and a piece still to be processed after it.
C12_Witness ==
    /\ PieceDone
    /\ LastDone < Len(bricks_data)
    /\ \E c, d \in Missing(bricks_data, LastDone) :
         /\ Unfillable(bricks_data, LastDone, c)
         /\ GreedyPass(bricks_data, LastDone, c).result.substitutes # <<>>
         /\ ColorIndex(new_bricks_data[LastDone].colors, d) # 0
         /\ SortedColors({c, d}) = <<c, d>>
         /\ c # d

(***************************************************************************)
(* C13 as claimed.  A document with a label that does not consist of       *)
(* exactly two tokens, the second of exactly two numbers around one "X",   *)
(* makes the run end in the parse error.                                   *)
(***************************************************************************)
WellFormed(brick_type) ==
    IF Len(brick_type) # 2 THEN FALSE
    ELSE IF Len(brick_type[2]) # 2 THEN FALSE
    ELSE brick_type[2][1] # NotANumber /\ brick_type[2][2] # NotANumber

C13_MalformedLabelRejected ==
    (\E i \in DOMAIN bricks_data : ~WellFormed(bricks_data[i].brick_type))
        => /\ new_bricks_data = <<>>
           /\ substitutes_file = <<>>

(***************************************************************************)
(* C14 as claimed.  Palette derivation fails exactly when a family has no  *)
(* piece or more than one piece of minimal area, and then neither a        *)
(* palette nor a universal catalog is made.                                *)
(***************************************************************************)
\* create_universal_palette has found its reference units or given up.
PaletteRun == pc = "no_reference" \/ PaletteDerived

NoPaletteOutput ==
    /\ universal_colors = {}
    /\ filtered_data = <<>>
    /\ verdict = NoVerdict
    /\ universal_file = <<>>

C14_UniqueMinimalIsReference ==
    /\ PaletteRun =>
         (pc = "no_reference"
             <=> \E f \in Families :
                    Cardinality(MinimalPieces(substitutes_file, f)) # 1)
    /\ pc = "no_reference" => NoPaletteOutput

(***************************************************************************)
(* C14.  Palette derivation fails exactly when the augmented catalog has   *)
(* no piece labelled BRICK 1X1 or none labelled PLATE 1X1, and then        *)
(* neither a palette nor a universal catalog is made; otherwise the        *)
(* reference units are these pieces, each of minimal area in its family.   *)
(***************************************************************************)
C14_ReferenceUnitIs1x1 ==
    /\ PaletteRun =>
         (pc = "no_reference"
             <=> \E f \in Families : ReferenceUnits(substitutes_file, f) = {})
    /\ PaletteDerived =>
         \A f \in Families :
           /\ ReferenceUnits(substitutes_file, f) # {}
           /\ ReferenceUnits(substitutes_file, f) \subseteq MinimalPieces(substitutes_file, f)
    /\ pc = "no_reference" => NoPaletteOutput

\* Derivation has failed on a catalog in which each family has one piece
\* of minimal area.
C14_Witness ==
    /\ pc = "no_reference"
    /\ \A f \in Families : Cardinality(MinimalPieces(substitutes_file, f)) = 1

(***************************************************************************)
(* C15.  The augmented catalog (while it is built and once written) has    *)
(* the pieces of the input in the same order with the same element_id and  *)
(* brick_type; the colour variants of each piece begin with the input's    *)
(* variants, unchanged and in their order, and every variant after them    *)
(* has a null element_id and is flagged is_substitute; no step changes the *)
(* loaded input catalog.                                                   *)
(***************************************************************************)
\* Record `augmented` is record `original` with substitute variants appended.
AppendedOnly(original, augmented) ==
    LET n == Len(original.colors)
    IN  /\ augmented.element_id = original.element_id
        /\ augmented.brick_type = original.brick_type
        /\ Len(augmented.colors) >= n
        /\ SubSeq(augmented.colors, 1, n) = original.colors
        /\ \A k \in (n + 1)..Len(augmented.colors) :
             /\ augmented.colors[k].element_id = <<>>
             /\ augmented.colors[k].is_substitute

AugmentationFrame ==
    /\ Len(new_bricks_data) <= Len(bricks_data)
    /\ \A i \in DOMAIN new_bricks_data :
         AppendedOnly(bricks_data[i], new_bricks_data[i])
    /\ Augmented =>
         /\ Len(substitutes_file) = Len(bricks_data)
         /\ \A i \in DOMAIN substitutes_file :
              AppendedOnly(bricks_data[i], substitutes_file[i])

C15_AppendOnly == []AugmentationFrame /\ [][bricks_data' = bricks_data]_vars

\* A written piece that kept a colour of its own and got another appended.
C15_Witness ==
    /\ Augmented
    /\ \E i \in DOMAIN substitutes_file :
         /\ bricks_data[i].colors # <<>>
         /\ Len(substitutes_file[i].colors) > Len(bricks_data[i].colors)

(***************************************************************************)
(* C16.  In every composition appended for a piece: the entries are in     *)
(* decreasing area order; each quantity is positive and is the floor of    *)
(* the area still uncovered before the entry divided by the entry's area;  *)
(* the entries cover the area exactly; and a fitting carrier of the colour *)
(* that is not in the composition (and has not the area of an entry) is    *)
(* larger than the area left uncovered by the entries of larger area.      *)
(***************************************************************************)
LabelArea(brick_type) == brick_type[2][1] * brick_type[2][2]

\* The area of piece i left uncovered after the first k entries.
RemainingAfter(data, i, substitutes, k) ==
    AreaOf(data[i]) - CoveredArea(SubSeq(substitutes, 1, k))

\* The strictly smaller pieces of piece i's family that carry colour c
\* directly and are neither wider nor longer than piece i.
FittingCarriers(data, i, c) ==
    {j \in SmallerOf(data, i) :
        /\ c \in DirectNamesOf(data[j])
        /\ data[j].brick_type[2][1] <= data[i].brick_type[2][1]
        /\ data[j].brick_type[2][2] <= data[i].brick_type[2][2]}

IsGreedy(data, i, c, substitutes) ==
    LET n == Len(substitutes)
        area(k) == LabelArea(substitutes[k].brick_type)
        larger(j) == Cardinality({k \in 1..n : area(k) > AreaOf(data[j])})
    IN  /\ \A k \in 1..n :
             /\ substitutes[k].quantity > 0
             /\ substitutes[k].quantity =
                    RemainingAfter(data, i, substitutes, k - 1) \div area(k)
             /\ k < n => area(k) > area(k + 1)
        /\ RemainingAfter(data, i, substitutes, n) = 0
        /\ \A j \in FittingCarriers(data, i, c) :
             (\A k \in 1..n : area(k) # AreaOf(data[j]))
                 => RemainingAfter(data, i, substitutes, larger(j)) < AreaOf(data[j])

C16_GreedyPass ==
    PieceDone =>
        \A k \in DOMAIN new_bricks_data[LastDone].colors :
          LET v == new_bricks_data[LastDone].colors[k]
          IN  v.is_substitute =>
                  IsGreedy(bricks_data, LastDone, v.color_name, v.substitutes)

\* A piece of area 6 whose colour is carried by fitting pieces of areas 4,
\* 2 and 1 got the composition of one piece of area 4 and one of area 2.
C16_Witness ==
    /\ PieceDone
    /\ AreaOf(bricks_data[LastDone]) = 6
    /\ \E j \in FittingCarriers(bricks_data, LastDone, "Red") :
         AreaOf(bricks_data[j]) = 1
    /\ \E k \in DOMAIN new_bricks_data[LastDone].colors :
         LET v == new_bricks_data[LastDone].colors[k]
         IN  /\ v.is_substitute
             /\ Len(v.substitutes) = 2
             /\ LabelArea(v.substitutes[1].brick_type) = 4
             /\ v.substitutes[1].quantity = 1
             /\ LabelArea(v.substitutes[2].brick_type) = 2
             /\ v.substitutes[2].quantity = 1

RECURSIVE NonUnitArea(_)
NonUnitArea(substitutes) ==
    IF substitutes = <<>> THEN 0
    ELSE (IF LabelArea(Head(substitutes).brick_type) = 1 THEN 0
          ELSE LabelArea(Head(substitutes).brick_type) * Head(substitutes).quantity)
         + NonUnitArea(Tail(substitutes))

\* The number of unit pieces of a composition.
RECURSIVE UnitQuantity(_)
UnitQuantity(substitutes) ==
    IF substitutes = <<>> THEN 0
    ELSE (IF LabelArea(Head(substitutes).brick_type) = 1
          THEN Head(substitutes).quantity ELSE 0)
         + UnitQuantity(Tail(substitutes))

\* A unit piece of piece i's family carries colour c directly.
UnitCarries(data, i, c) ==
    \E j \in SmallerOf(data, i) :
        AreaOf(data[j]) = 1 /\ c \in DirectNamesOf(data[j])

C18_UnitPieceFills ==
    PieceDone =>
        \A c \in Missing(bricks_data, LastDone) :
          UnitCarries(bricks_data, LastDone, c) =>
            /\ c \in SubstituteNamesOf(new_bricks_data[LastDone])
            /\ \A k \in DOMAIN new_bricks_data[LastDone].colors :
                 LET v == new_bricks_data[LastDone].colors[k]
                 IN  v.color_name = c =>
                       /\ UnitQuantity(v.substitutes) =
                              AreaOf(bricks_data[LastDone]) - NonUnitArea(v.substitutes)
                       /\ \A e \in DOMAIN v.substitutes :
                            LabelArea(v.substitutes[e].brick_type) = 1
                                => e = Len(v.substitutes)

\* A composition of a larger piece followed by several unit pieces.
C18_Witness ==
    /\ PieceDone
    /\ UnitCarries(bricks_data, LastDone, "Red")
    /\ \E k \in DOMAIN new_bricks_data[LastDone].colors :
         LET v == new_bricks_data[LastDone].colors[k]
         IN  /\ v.is_substitute
             /\ NonUnitArea(v.substitutes) > 0
             /\ UnitQuantity(v.substitutes) >= 2

(***************************************************************************)
(* C19 as claimed.  A null or absent price of a contributing piece counts  *)
(* as 0: the run does not raise, and every substitute variant has a        *)
(* numeric price, the rounded sum of the listed prices times quantities    *)
(* with the null and absent ones taken as 0.                               *)
(***************************************************************************)
\* The listed price of a variant, a null or absent one counting as 0.
PriceOrZero(variant) == IF variant.price \in {NoPrice, AbsentPrice} THEN 0 ELSE variant.price

RECURSIVE PriceSumOrZero(_, _, _)
PriceSumOrZero(data, substitutes, c) ==
    IF substitutes = <<>> THEN 0
    ELSE PriceOrZero(DirectVariant(PieceLabelled(data, Head(substitutes).brick_type), c))
             * Head(substitutes).quantity
         + PriceSumOrZero(data, Tail(substitutes), c)

C19_MissingPriceCountsAsZero ==
    /\ pc # "generate_raised"
    /\ \A i \in DOMAIN new_bricks_data :
         \A k \in DOMAIN new_bricks_data[i].colors :
           LET v == new_bricks_data[i].colors[k]
           IN  v.is_substitute =>
                 /\ v.price >= 0
                 /\ v.price - PriceSumOrZero(bricks_data, v.substitutes, v.color_name)
                        \in -5..5

(***************************************************************************)
(* C20.  The rgb of a substitute variant appended for a piece is the rgb   *)
(* (null included) of that colour's direct variant on the first piece, by  *)
(* ascending area and file order among equal areas, of the strictly        *)
(* smaller pieces of the family that carry the colour directly, whether or *)
(* not that piece fits the target or is part of the composition.           *)
(***************************************************************************)
\* The strictly smaller same-family pieces that carry colour c directly.
DirectCarriers(data, i, c) ==
    {j \in SmallerOf(data, i) : c \in DirectNamesOf(data[j])}

\* j is the first of them in ascending-area order, the earlier record first
\* among equal areas.
IsFirstCarrier(data, i, c, j) ==
    /\ j \in DirectCarriers(data, i, c)
    /\ \A m \in DirectCarriers(data, i, c) :
         \/ AreaOf(data[j]) < AreaOf(data[m])
         \/ AreaOf(data[j]) = AreaOf(data[m]) /\ j <= m

C20_RgbOfFirstCarrier ==
    PieceDone =>
        \A k \in DOMAIN new_bricks_data[LastDone].colors :
          LET v == new_bricks_data[LastDone].colors[k]
          IN  v.is_substitute =>
                \E j \in DOMAIN bricks_data :
                  /\ IsFirstCarrier(bricks_data, LastDone, v.color_name, j)
                  /\ v.rgb = DirectVariant(bricks_data[j], v.color_name).rgb

\* The rgb of an appended variant comes from a first carrier that does not
\* fit the piece and is no entry of the composition, whose rgb differs from
\* the rgb on every piece of the composition.
C20_Witness ==
    /\ PieceDone
    /\ \E k \in DOMAIN new_bricks_data[LastDone].colors :
         LET v == new_bricks_data[LastDone].colors[k]
         IN  /\ v.is_substitute
             /\ v.rgb # <<>>
             /\ \E j \in DOMAIN bricks_data :
                  /\ IsFirstCarrier(bricks_data, LastDone, v.color_name, j)
                  /\ j \notin FittingCarriers(bricks_data, LastDone, v.color_name)
                  /\ v.rgb = DirectVariant(bricks_data[j], v.color_name).rgb
                  /\ \A e \in DOMAIN v.substitutes :
                       /\ v.substitutes[e].brick_type # bricks_data[j].brick_type
                       /\ DirectVariant(PieceLabelled(bricks_data,
                                                      v.substitutes[e].brick_type),
                                        v.color_name).rgb # v.rgb

(***************************************************************************)
(* C21.  With the pieces processed in any order, each record written is    *)
(* the record the run in file order builds for that piece, and it is the   *)
(* record computed from the piece and the strictly smaller pieces of its   *)
(* family alone, as the document lists them; the catalog written at the    *)
(* end is the catalog of the run in file order.                            *)
(***************************************************************************)
\* The document cut down to piece i and the strictly smaller pieces of its
\* family.
OwnAndSmaller(data, i) ==
    SelectSeq(data, LAMBDA b :
        IF b.brick_type = data[i].brick_type THEN TRUE
        ELSE FamilyOf(b) = FamilyOf(data[i]) /\ AreaOf(b) < AreaOf(data[i]))

C21_OrderIndependent ==
    /\ \A i \in DOMAIN new_bricks_data :
         IsWritten(new_bricks_data, i) =>
           /\ new_bricks_data[i] = GenerateFrom(bricks_data, <<>>)[i]
           /\ new_bricks_data[i] =
                  NewBrick(OwnAndSmaller(bricks_data, i), BrickInfo(bricks_data[i]))
    /\ pc = "analyze_substitutes" =>
           substitutes_file = GenerateFrom(bricks_data, <<>>)

\* A piece got a substitute colour while an earlier piece of the document
\* was not yet written and a strictly smaller piece of its family already
\* had its record written with a substitute of the same colour.
C21_Witness ==
    \E i, j, q \in DOMAIN new_bricks_data :
        /\ i < j
        /\ ~IsWritten(new_bricks_data, i)
        /\ IsWritten(new_bricks_data, j)
        /\ IsWritten(new_bricks_data, q)
        /\ q \in SmallerOf(bricks_data, j)
        /\ SubstituteNamesOf(new_bricks_data[j])
               \cap SubstituteNamesOf(new_bricks_data[q]) # {}

(***************************************************************************)
(* C22.  For a document that lists BRICK 1X1 and PLATE 1X1 (its families   *)
(* are BRICK and PLATE, the colour names of a piece are distinct and no    *)
(* entry is a substitute), every piece of the filtered catalog, and of the *)
(* universal catalog written from it, has exactly the colour names of the  *)
(* universal palette and num_colors equal to the size of the palette, and  *)
(* the consistency check finds a match and reports no family.              *)
(***************************************************************************)
\* The document lists the unit piece of both families.
BothUnitsListed ==
    /\ ReferenceUnits(bricks_data, "BRICK") # {}
    /\ ReferenceUnits(bricks_data, "PLATE") # {}

\* Every piece of the catalog carries exactly the palette.
CarriesPalette(catalog, palette) ==
    \A i \in DOMAIN catalog :
        /\ NamesOf(catalog[i]) = palette
        /\ catalog[i].num_colors = Cardinality(palette)
        /\ Len(catalog[i].colors) = Cardinality(palette)

C22_PaletteConsistency ==
    BothUnitsListed =>
        /\ Filtered => CarriesPalette(filtered_data, universal_colors)
        /\ pc # "verify_raised"
        /\ Verified => /\ verdict.match
                       /\ verdict.reported = {}
        /\ pc \in {"refilter", "done"} =>
               /\ CarriesPalette(universal_file, universal_colors)
               /\ (Len(universal_file) = Len(bricks_data) \/ universal_colors = {})

\* The universal catalog of a document with both unit pieces and a larger
\* piece: the palette is not empty, the larger piece has a palette colour
\* as a substitute only, and a colour outside the palette was filtered out
\* of some piece.
C22_Witness ==
    /\ pc = "done"
    /\ BothUnitsListed
    /\ universal_colors # {}
    /\ \E i \in DOMAIN universal_file :
         SubstituteNamesOf(universal_file[i]) # {}
    /\ \E i \in DOMAIN substitutes_file :
         NamesOf(substitutes_file[i]) \ universal_colors # {}

(***************************************************************************)
(* C23.  In every call of find_efficient_substitute made for a piece,      *)
(* when the candidate of minimal area has area 1 the greedy loop ends with *)
(* remaining_area = 0, so the append of lines 108-114 is not reached; and  *)
(* no composition returned has two entries of the same brick_type.         *)
(***************************************************************************)
\* The sorted candidates of the call for colour c of piece i.
SortedCandidates(data, i, c) ==
    LET brick_info == BrickInfo(data[i])
    IN  SortDesc(Candidates(brick_info.width, brick_info.length,
                            SmallerBricks(data, brick_info), c))

\* The substitutes and remaining_area the greedy loop of that call ends with.
GreedyEnd(data, i, c) ==
    LET brick_info == BrickInfo(data[i])
    IN  GreedyFrom(SortedCandidates(data, i, c), 1,
                   brick_info.width, brick_info.length,
                   [substitutes |-> <<>>,
                    remaining_area |-> brick_info.width * brick_info.length])

\* The call reaches the append of lines 108-114.
FallbackFires(data, i, c) ==
    IF SortedCandidates(data, i, c) = <<>> THEN FALSE
    ELSE /\ GreedyEnd(data, i, c).remaining_area > 0
         /\ Smallest(SortedCandidates(data, i, c)).size = 1

DistinctEntries(substitutes) ==
    \A e, f \in DOMAIN substitutes :
        substitutes[e].brick_type = substitutes[f].brick_type => e = f

C23_FallbackNeverFires ==
    PieceDone =>
        \A c \in Missing(bricks_data, LastDone) :
          /\ ~FallbackFires(bricks_data, LastDone, c)
          /\ LET result == SubstitutesFor(bricks_data, BrickInfo(bricks_data[LastDone]), c)
             IN  ~result.none =>
                   /\ DistinctEntries(result.list)
                   /\ result.list = GreedyEnd(bricks_data, LastDone, c).substitutes

\* A call whose smallest candidate is a unit piece, with a candidate that
\* does not fit and a larger one that leaves a remainder: the unit piece
\* is the last entry the greedy loop appends.
C23_Witness ==
    /\ PieceDone
    /\ \E c \in Missing(bricks_data, LastDone) :
         LET candidates == SortedCandidates(bricks_data, LastDone, c)
             greedy == GreedyEnd(bricks_data, LastDone, c)
             brick_info == BrickInfo(bricks_data[LastDone])
         IN  /\ candidates # <<>>
             /\ Smallest(candidates).size = 1
             /\ \E k \in DOMAIN candidates :
                  ~Fits(candidates[k], brick_info.width, brick_info.length)
             /\ Len(greedy.substitutes) >= 2
             /\ greedy.remaining_area = 0
             /\ LabelArea(greedy.substitutes[Len(greedy.substitutes)].brick_type) = 1
             /\ LabelArea(greedy.substitutes[1].brick_type) > 1

====
